---- MODULE Spec2Model ----
(***************************************************************************)
(* Model of classypy/devops/secrets.py: the unprintable Secrets dict, the  *)
(* dotenv writer and find_secrets, which layers credstash secrets under    *)
(* local .env values that python-dotenv loads into os.environ.             *)
(*                                                                         *)
(* A Python str is a sequence of one-character strings, so that split()    *)
(* and sorted() are computed and not assumed.  A dict is a function whose  *)
(* domain is its key set.                                                  *)
(***************************************************************************)
EXTENDS Integers, Sequences, FiniteSets, TLC

VARIABLES
    environ,      \* os.environ
    call,         \* arguments of the last find_secrets call
    fetch,        \* the credstash.getAllSecrets call made by the last call
    dotenv,       \* the env_file resolved and loaded by the last call
    result,       \* how the last find_secrets call ended and what it returned
    latest,       \* history: key -> value in the most recently loaded file defining it
    wr,           \* write_dotenv: arguments, position, and the text written to env_file
    obj,          \* a Secrets object: identity and items
    printed       \* the texts print(obj) wrote, each with the items obj held then

vars == <<environ, call, fetch, dotenv, result, latest, wr, obj, printed>>

secretsVars == <<environ, call, fetch, dotenv, result, latest>>

----------------------------------------------------------------------------
(* Python values *)

\* None; no str equals it, since every element of a str is one character
None == <<"None">>

\* allowed_keys=None (the argument is a collection of keys otherwise)
NoKeys == {None}

\* the test `x is not None` in place of the truth value
IsNotNone(x) == x # None

\* truth value of a str or None, as tested by `if x:` and `x or y`
Truthy(x) == x # None /\ x # <<>>

\* x or y
Or(x, y) == IF Truthy(x) THEN x ELSE y

\* {}
EmptyDict == [k \in {} |-> <<>>]

\* an update that keeps the value of a key the dict already has
UpdateMissingOnly(d, e) ==
    [k \in DOMAIN d \cup DOMAIN e |-> IF k \in DOMAIN d THEN d[k] ELSE e[k]]

\* d.update(e) on a copy of d
Update(d, e) == [k \in DOMAIN d \cup DOMAIN e |-> IF k \in DOMAIN e THEN e[k] ELSE d[k]]

\* s.split(sep)[0]
SplitFirst(s, sep) ==
    LET at == {i \in 1..Len(s) : s[i] = sep}
    IN  IF at = {} THEN s
        ELSE SubSeq(s, 1, (CHOOSE i \in at : \A j \in at : i <= j) - 1)

\* all dicts with keys in K and values in V
Dicts(K, V) == UNION {[D -> V] : D \in SUBSET K}

----------------------------------------------------------------------------
(* Bounded inputs *)

NumFileValues == 2

K1 == <<"X", "_", "1">>
K2 == <<"Y", "_", "1">>
SecretKeys == {K1, K2}

\* values tell their source apart: remote, pre-existing environment, local file
RemoteValues == {<<"r">>}
AmbientValues == {<<"e">>}
FileValuePool == <<(<<"l", "1">>), (<<"l", "2">>), (<<"l", "3">>), (<<"l", "4">>)>>
FileValues == {FileValuePool[i] : i \in 1..NumFileValues}

\* contents of a .env file: every entry of one file carries that file's value
FileContents == UNION {[D -> {v}] : D \in SUBSET SecretKeys, v \in FileValues}

AllowLists == {NoKeys} \cup SUBSET SecretKeys

PathDotenv == <<".", "e", "n", "v">>
PathFound == <<"/", ".", "e", "n", "v">>

ProdAccounts == <<"p", "r", "o", "d", "-", "a", "c", "c", "o", "u", "n", "t", "s">>
StagingAccounts == <<"s", "t", "a", "g", "i", "n", "g", "-", "a", "c", "c", "o", "u", "n", "t", "s">>
UnknownAccounts == <<"u", "n", "k", "n", "o", "w", "n", "-", "a", "c", "c", "o", "u", "n", "t", "s">>
Prod == <<"p", "r", "o", "d">>
Staging == <<"s", "t", "a", "g", "i", "n", "g">>
DashProd == <<"-", "p", "r", "o", "d">>
ProdUnderscore == <<"p", "r", "o", "d", "_", "x">>

UsEast1 == <<"u", "s", "-", "e", "a", "s", "t", "-", "1">>
UsWest2 == <<"u", "s", "-", "w", "e", "s", "t", "-", "2">>
EuWest1 == <<"e", "u", "-", "w", "e", "s", "t", "-", "1">>

----------------------------------------------------------------------------
(* secrets.py *)

REGION_MAP == (Prod :> UsEast1) @@ (Staging :> UsWest2)

\* a filter that admits every key
filter_dict_all(d, allowed_keys) == d

filter_dict(d, allowed_keys) ==
    [k \in {x \in DOMAIN d : allowed_keys = NoKeys \/ x \in allowed_keys} |-> d[k]]

\* a lookup of the whole table name, without the split
_region_from_whole_tablename(credstash_table) ==
    IF credstash_table \in DOMAIN REGION_MAP THEN REGION_MAP[credstash_table] ELSE None

_region_from_credstash_tablename(credstash_table) ==
    LET env == SplitFirst(credstash_table, "-")
    IN  IF env \in DOMAIN REGION_MAP THEN REGION_MAP[env] ELSE None

\* load_dotenv that never overrides an entry already in os.environ
load_dotenv_setdefault(env, content, override) ==
    [k \in DOMAIN env \cup DOMAIN content |->
        IF k \in DOMAIN env THEN env[k] ELSE content[k]]

\* dotenv.load_dotenv(env_file, override=...): every entry of the file is set in
\* os.environ; with override=False an entry already in os.environ is left alone
load_dotenv(env, content, override) ==
    [k \in DOMAIN env \cup DOMAIN content |->
        IF k \in DOMAIN content /\ (override \/ k \notin DOMAIN env)
        THEN content[k] ELSE env[k]]

\* outcomes of credstash.getAllSecrets: a dict, or an exception
FetchOutcomes == [ok : {TRUE}, secrets : Dicts(SecretKeys, RemoteValues)]
                 \cup {[ok |-> FALSE, secrets |-> EmptyDict]}

\* outcomes of find_dotenv: the path found, '' when there is none, or the
\* exception os.chdir raises
SearchRaises == <<"OSError">>
SearchOutcomes == {PathFound, <<>>, SearchRaises}

NoFetch == [called |-> FALSE, table |-> None, region |-> None, ok |-> FALSE, secrets |-> EmptyDict]
NoDotenv == [searched |-> FALSE, path |-> None, loaded |-> FALSE, content |-> EmptyDict]
NoCall == [env_file |-> None, credstash_table |-> None, allowed_keys |-> NoKeys, region |-> None]
NoResult == [status |-> "idle", secrets |-> EmptyDict]

\* a handler that swallows the exception
Swallowed(raised) == FALSE

\* find_secrets has no try/except: an exception raised by a collaborator ends the call
Propagates(raised) == raised

find_secrets(env_file, credstash_table, allowed_keys, region) ==
    LET args == [env_file |-> env_file, credstash_table |-> credstash_table,
                 allowed_keys |-> allowed_keys, region |-> region]
        region1 == Or(region, _region_from_credstash_tablename(credstash_table))
    IN
    \E got \in IF Truthy(credstash_table) THEN FetchOutcomes ELSE {NoFetch} :
        LET fetched == IF Truthy(credstash_table)
                       THEN [called |-> TRUE, table |-> credstash_table, region |-> region1,
                             ok |-> got.ok, secrets |-> got.secrets]
                       ELSE NoFetch
            secrets1 == IF fetched.called
                        THEN Update(EmptyDict, filter_dict(fetched.secrets, allowed_keys))
                        ELSE EmptyDict
        IN
        IF Propagates(fetched.called /\ ~fetched.ok)
        THEN \* getAllSecrets raised: nothing after line 74 runs
             /\ call' = args
             /\ fetch' = fetched
             /\ dotenv' = NoDotenv
             /\ result' = [status |-> "raised", secrets |-> EmptyDict]
             /\ UNCHANGED <<environ, latest>>
        ELSE
        \E found \in IF Truthy(env_file) THEN {None} ELSE SearchOutcomes :
            IF Propagates(found = SearchRaises)
            THEN /\ call' = args
                 /\ fetch' = fetched
                 /\ dotenv' = [NoDotenv EXCEPT !.searched = TRUE]
                 /\ result' = [status |-> "raised", secrets |-> EmptyDict]
                 /\ UNCHANGED <<environ, latest>>
            ELSE
            LET env_file1 == Or(env_file, found)
            IN
            \E content \in IF Truthy(env_file1) THEN FileContents ELSE {EmptyDict} :
                LET environ1 == IF Truthy(env_file1)
                                THEN load_dotenv(environ, content, TRUE)
                                ELSE environ
                    secrets2 == IF Truthy(env_file1)
                                THEN Update(secrets1, filter_dict(environ1, allowed_keys))
                                ELSE secrets1
                IN  /\ call' = args
                    /\ fetch' = fetched
                    /\ dotenv' = [searched |-> ~Truthy(env_file), path |-> env_file1,
                                  loaded |-> Truthy(env_file1), content |-> content]
                    /\ environ' = environ1
                    /\ latest' = IF Truthy(env_file1) THEN Update(latest, content) ELSE latest
                    /\ result' = [status |-> "returned", secrets |-> secrets2]

----------------------------------------------------------------------------

----------------------------------------------------------------------------
(* Secrets.__repr__ *)

HexDigits == <<"0", "1", "2", "3", "4", "5", "6", "7", "8", "9", "a", "b", "c", "d", "e", "f">>

RECURSIVE HexOf(_)
HexOf(n) == IF n < 16 THEN <<HexDigits[n + 1]>>
            ELSE HexOf(n \div 16) \o <<HexDigits[(n % 16) + 1]>>

\* hex(n) for n >= 0
hex(n) == <<"0", "x">> \o HexOf(n)

\* self.__class__.__module__ and self.__class__.__name__
ClassModule == <<"c", "l", "a", "s", "s", "y", "p", "y", ".", "d", "e", "v", "o", "p", "s", ".",
                 "s", "e", "c", "r", "e", "t", "s">>
ClassName == <<"S", "e", "c", "r", "e", "t", "s">>

\* the items of d over the keys K, rendered one after the other
RECURSIVE RenderItems(_, _)
RenderItems(d, K) ==
    IF K = {} THEN <<>>
    ELSE LET k == CHOOSE x \in K : TRUE
         IN  k \o <<":", " ">> \o d[k] \o <<",", " ">> \o RenderItems(d, K \ {k})

\* the representation inherited from dict, which renders the items
dict__repr__(self) == <<"{">> \o RenderItems(self.items, DOMAIN self.items) \o <<"}">>

\* '<%s.%s object at %s>' % (module, name, hex(id(self)))
Secrets__repr__(self) ==
    <<"<">> \o ClassModule \o <<".">> \o ClassName
            \o <<" ", "o", "b", "j", "e", "c", "t", " ", "a", "t", " ">>
            \o hex(self.id) \o <<">">>

----------------------------------------------------------------------------
(* write_dotenv *)

\* code points of the characters dotenv keys are drawn from
Ord == ("1" :> 49) @@ ("A" :> 65) @@ ("_" :> 95)

\* a < b on str: the first differing character decides, a proper prefix is smaller
StrLess(a, b) ==
    \E i \in 1..(Len(b)) :
        /\ \A j \in 1..(i - 1) : j <= Len(a) /\ a[j] = b[j]
        /\ \/ i = Len(a) + 1
           \/ i <= Len(a) /\ Ord[a[i]] < Ord[b[i]]

\* sorted(keys)
RECURSIVE sorted(_)
sorted(S) ==
    IF S = {} THEN <<>>
    ELSE LET m == CHOOSE x \in S : \A y \in S : x = y \/ StrLess(x, y)
         IN  <<m>> \o sorted(S \ {m})

_key_prefix(key) == SplitFirst(key, "_")

\* secrets[key] for a dict given as its items in iteration order
Item(secrets, key) == (CHOOSE i \in DOMAIN secrets : secrets[i][1] = key)

\* "%s = %s\n" % (key, value)
Line(key, value) == key \o <<" ", "=", " ">> \o value \o <<"\n">>

\* the for loop of write_dotenv from position i, with the writes made so far in fp
RECURSIVE WriteLoop(_, _, _, _, _, _)
WriteLoop(keys, i, secrets, section_split, prev_prefix, fp) ==
    IF i > Len(keys) THEN fp
    ELSE LET key == keys[i]
             changed == _key_prefix(key) # prev_prefix
             prev1 == IF changed THEN _key_prefix(key) ELSE prev_prefix
             fp1 == IF changed /\ Truthy(prev1) THEN Append(fp, section_split) ELSE fp
         IN  WriteLoop(keys, i + 1, secrets, section_split, prev1,
                       Append(fp1, Line(key, secrets[Item(secrets, key)][2])))

\* the sequence of fp.write() arguments of write_dotenv(env_file, secrets, section_split)
write_dotenv(secrets, section_split) ==
    LET keys0 == [i \in DOMAIN secrets |-> secrets[i][1]]
        keys == IF Truthy(section_split) THEN sorted({keys0[i] : i \in DOMAIN keys0}) ELSE keys0
    IN  WriteLoop(keys, 1, secrets, section_split, <<>>, <<>>)

----------------------------------------------------------------------------
(* Bounded inputs of write_dotenv and of Secrets objects *)

MaxKeyLen == 3
MaxSecrets == 3
NumIds == 3
MaxPrints == 2

DotenvAlphabet == DOMAIN Ord
DotenvKeys == UNION {[1..n -> DotenvAlphabet] : n \in 1..MaxKeyLen}
DotenvValues == {<<"x">>}

\* dicts of at most MaxSecrets entries, as items in iteration (insertion) order
OrderedDicts ==
    UNION {{d \in [1..n -> DotenvKeys \X DotenvValues] :
              \A i, j \in 1..n : d[i][1] = d[j][1] => i = j} : n \in 0..MaxSecrets}

SectionSplits == {<<>>, <<"\n">>}

NoWrite == [pc |-> "idle", secrets |-> <<>>, section_split |-> <<>>, fp |-> <<>>]

\* id(self) of the objects printed
Ids == {85 * i : i \in 1..NumIds}

\* values of the items; none occurs in the fixed text of the representation
ItemValues == FileValues

NoObject == [id |-> 0, items |-> EmptyDict]

----------------------------------------------------------------------------

InitSecrets ==
    /\ environ \in Dicts(SecretKeys, AmbientValues)
    /\ call = NoCall
    /\ fetch = NoFetch
    /\ dotenv = NoDotenv
    /\ result = NoResult
    /\ latest = EmptyDict

Init ==
    /\ InitSecrets
    /\ wr = NoWrite
    /\ obj = NoObject
    /\ printed = <<>>

FindSecrets ==
    /\ \E env_file \in {None, PathDotenv}, credstash_table \in {None, ProdAccounts},
          allowed_keys \in AllowLists, region \in {None} :
            find_secrets(env_file, credstash_table, allowed_keys, region)
    /\ UNCHANGED <<wr, obj, printed>>

Next == FindSecrets

Spec == Init /\ [][Next]_vars

----------------------------------------------------------------------------
(* find_secrets over table names and regions *)

Tables == {None, <<>>, ProdAccounts, StagingAccounts, UnknownAccounts, Prod, DashProd,
           ProdUnderscore}
Regions == {None, <<>>, EuWest1}

FindSecretsRegion ==
    /\ \E credstash_table \in Tables, region \in Regions :
            find_secrets(PathDotenv, credstash_table, NoKeys, region)
    /\ UNCHANGED <<wr, obj, printed>>

NextRegion == FindSecretsRegion

SpecRegion == Init /\ [][NextRegion]_vars

----------------------------------------------------------------------------
(* write_dotenv applied to every bounded dict *)

InitDotenv ==
    /\ environ = EmptyDict
    /\ call = NoCall
    /\ fetch = NoFetch
    /\ dotenv = NoDotenv
    /\ result = NoResult
    /\ latest = EmptyDict
    /\ obj = NoObject
    /\ printed = <<>>
    /\ \E secrets \in OrderedDicts, section_split \in SectionSplits :
          wr = [pc |-> "start", secrets |-> secrets, section_split |-> section_split,
                fp |-> <<>>]

WriteDotenv ==
    /\ wr.pc = "start"
    /\ wr' = [wr EXCEPT !.pc = "done", !.fp = write_dotenv(wr.secrets, wr.section_split)]
    /\ UNCHANGED <<secretsVars, obj, printed>>

NextDotenv == WriteDotenv

SpecDotenv == InitDotenv /\ [][NextDotenv]_vars

----------------------------------------------------------------------------
(* printing a Secrets object while its items change *)

InitRepr ==
    /\ environ = EmptyDict
    /\ call = NoCall
    /\ fetch = NoFetch
    /\ dotenv = NoDotenv
    /\ result = NoResult
    /\ latest = EmptyDict
    /\ wr = NoWrite
    /\ printed = <<>>
    /\ \E id \in Ids : obj = [id |-> id, items |-> EmptyDict]

\* self[key] = value, inherited from dict
SetItem ==
    /\ \E key \in SecretKeys, value \in ItemValues :
          obj' = [obj EXCEPT !.items = Update(obj.items, key :> value)]
    /\ UNCHANGED <<secretsVars, wr, printed>>

\* print(self): the text, with the items the object held when it was printed
PrintSecrets ==
    /\ Len(printed) < MaxPrints
    /\ printed' = Append(printed, [text |-> Secrets__repr__(obj), of |-> obj.items])
    /\ UNCHANGED <<secretsVars, wr, obj>>

NextRepr == SetItem \/ PrintSecrets

SpecRepr == InitRepr /\ [][NextRepr]_vars

----------------------------------------------------------------------------
(* Properties of find_secrets *)

\* {k: v in d | k in allow}, all of d when the allow list is unset
Admitted(d, allow) ==
    [k \in (IF allow = NoKeys THEN DOMAIN d ELSE DOMAIN d \cap allow) |-> d[k]]

\* the dict getAllSecrets returned to the last call; empty when it was not called
RemoteMap == IF fetch.called /\ fetch.ok THEN fetch.secrets ELSE EmptyDict

\* C1: a call with only a local file (no credstash_table) returns exactly the
\* entries of the file that the allow list admits, whatever os.environ held
C1_LocalOnlyReturnsFile ==
    (result.status = "returned" /\ ~fetch.called /\ dotenv.loaded)
        => result.secrets = Admitted(dotenv.content, call.allowed_keys)

\* C2: with a remote table and a loaded local file, an admitted key found in both
\* the remote dict and os.environ (which holds the file's entries) is returned
\* with the local value, the file's own value when the file defines it; an
\* admitted key found in one source only is returned with that source's value
C2_LocalOverridesRemote ==
    (result.status = "returned" /\ fetch.called /\ dotenv.loaded) =>
        \A k \in SecretKeys :
            (call.allowed_keys = NoKeys \/ k \in call.allowed_keys) =>
                /\ k \in DOMAIN dotenv.content =>
                      k \in DOMAIN result.secrets /\ result.secrets[k] = dotenv.content[k]
                /\ k \in DOMAIN environ =>
                      k \in DOMAIN result.secrets /\ result.secrets[k] = environ[k]
                /\ (k \in DOMAIN fetch.secrets /\ k \notin DOMAIN environ) =>
                      k \in DOMAIN result.secrets /\ result.secrets[k] = fetch.secrets[k]

C2_Witness ==
    /\ result.status = "returned" /\ fetch.called /\ dotenv.loaded
    /\ K1 \in DOMAIN fetch.secrets /\ K1 \in DOMAIN dotenv.content
    /\ K1 \in DOMAIN result.secrets /\ result.secrets[K1] = dotenv.content[K1]
    /\ fetch.secrets[K1] # dotenv.content[K1]
    /\ K2 \in DOMAIN fetch.secrets /\ K2 \notin DOMAIN environ
    /\ K2 \in DOMAIN result.secrets

\* the substring of t before its first '-', all of t when it has none
PrefixBeforeDash(t) ==
    CHOOSE p \in {SubSeq(t, 1, n) : n \in 0..Len(t)} :
        \/ p = t /\ \A i \in 1..Len(t) : t[i] # "-"
        \/ Len(p) < Len(t) /\ t[Len(p) + 1] = "-" /\ \A i \in 1..Len(p) : p[i] # "-"

InferredRegion(t) ==
    IF PrefixBeforeDash(t) = Prod THEN UsEast1
    ELSE IF PrefixBeforeDash(t) = Staging THEN UsWest2
    ELSE None

\* C3 as stated: the region passed to getAllSecrets is the region argument
\* whenever one is given (is not None), and is inferred from the table name's
\* prefix otherwise, None for an unrecognised prefix; the inference raises nothing
C3_RegionWhenGiven ==
    fetch.called =>
        /\ fetch.region = IF call.region # None THEN call.region
                          ELSE InferredRegion(fetch.table)
        /\ fetch.ok => result.status = "returned"

\* C3 amended: the region argument is passed when it is given and not the empty
\* string; an omitted or empty region is inferred from the table name's prefix,
\* None for an unrecognised prefix; the inference raises nothing
C3_RegionWhenNonEmpty ==
    fetch.called =>
        /\ fetch.region = IF call.region # None /\ call.region # <<>> THEN call.region
                          ELSE InferredRegion(fetch.table)
        /\ fetch.ok => result.status = "returned"

C3_Witness ==
    /\ fetch.called /\ call.region = None
    /\ fetch.table = ProdAccounts /\ fetch.region = UsEast1

\* C6: with an allow list every returned key is in it; without one the returned
\* keys are all keys of every source consulted (the remote dict when a table was
\* fetched, os.environ when a local file was loaded)
C6_AllowListRestricts ==
    result.status = "returned" =>
        /\ call.allowed_keys # NoKeys => DOMAIN result.secrets \subseteq call.allowed_keys
        /\ call.allowed_keys = NoKeys =>
              DOMAIN result.secrets =
                  DOMAIN RemoteMap \cup (IF dotenv.loaded THEN DOMAIN environ ELSE {})

C6_Witness ==
    /\ result.status = "returned" /\ fetch.called /\ dotenv.loaded
    /\ call.allowed_keys = {K1}
    /\ K2 \in DOMAIN fetch.secrets /\ K2 \in DOMAIN environ
    /\ K1 \in DOMAIN fetch.secrets
    /\ DOMAIN result.secrets = {K1}

\* C7: a call whose search for a local file finds none (no env_file argument)
\* returns, with exactly the admitted entries of the remote dict (nothing when no
\* table was given), and leaves os.environ as it was
C7_NoLocalFile ==
    [][(dotenv'.searched /\ dotenv'.path = <<>>) =>
          /\ result'.status = "returned"
          /\ ~dotenv'.loaded
          /\ result'.secrets =
                Admitted(IF fetch'.called THEN fetch'.secrets ELSE EmptyDict,
                         call'.allowed_keys)
          /\ environ' = environ]_vars

C7_Witness ==
    /\ dotenv.searched /\ dotenv.path = <<>>
    /\ result.status = "returned"
    /\ fetch.called /\ K1 \in DOMAIN fetch.secrets
    /\ K2 \in DOMAIN environ /\ K2 \notin DOMAIN result.secrets
    /\ call.allowed_keys = NoKeys

\* C8: a call whose remote fetch fails ends with the error raised, returns no
\* dict, loads no local file and leaves os.environ as it was
C8_FetchFailurePropagates ==
    [][(fetch'.called /\ ~fetch'.ok) =>
          /\ result'.status = "raised"
          /\ result'.secrets = EmptyDict
          /\ ~dotenv'.loaded /\ ~dotenv'.searched
          /\ environ' = environ]_vars

C8_Witness ==
    /\ fetch.called /\ ~fetch.ok
    /\ result.status = "raised"
    /\ call.env_file = PathDotenv
    /\ environ # EmptyDict

\* C10: across calls no key leaves os.environ; every key of a file loaded so
\* far holds the value of the most recently loaded file that defines it; and a
\* call that loads a file returns every such key the allow list admits
C10_EnvironAccumulates ==
    [][/\ \A k \in DOMAIN environ : k \in DOMAIN environ'
       /\ \A k \in DOMAIN latest' : k \in DOMAIN environ' /\ environ'[k] = latest'[k]
       /\ (result'.status = "returned" /\ dotenv'.loaded) =>
             \A k \in DOMAIN latest' :
                 (call'.allowed_keys = NoKeys \/ k \in call'.allowed_keys) =>
                     k \in DOMAIN result'.secrets /\ result'.secrets[k] = latest'[k]]_vars

C10_Witness ==
    /\ result.status = "returned" /\ dotenv.loaded
    /\ K1 \in DOMAIN latest /\ K1 \notin DOMAIN dotenv.content
    /\ K2 \in DOMAIN dotenv.content /\ latest[K1] # dotenv.content[K2]
    /\ K1 \in DOMAIN result.secrets /\ result.secrets[K1] = latest[K1]
    /\ environ[K2] = dotenv.content[K2]

----------------------------------------------------------------------------
(* Properties of write_dotenv *)

\* the key = value lines written, in order, without the separators
LinesWritten == SelectSeq(wr.fp, LAMBDA w : w # wr.section_split)

\* the key of a written line
KeyOfLine(line) == SplitFirst(line, " ")

PrefixesWritten == [i \in DOMAIN LinesWritten |-> _key_prefix(KeyOfLine(LinesWritten[i]))]

\* the first key in sorted order
FirstSortedKey ==
    CHOOSE k \in {wr.secrets[i][1] : i \in DOMAIN wr.secrets} :
        \A i \in DOMAIN wr.secrets : wr.secrets[i][1] = k \/ StrLess(k, wr.secrets[i][1])

\* C4: with sectioning, the file of a non-empty dict begins with the line of the
\* first sorted key, and a separator is written exactly before each later line
\* whose prefix differs from that of the line before it
C4_NoSeparatorBeforeFirstGroup ==
    (wr.pc = "done" /\ Truthy(wr.section_split) /\ wr.secrets # <<>>) =>
        /\ KeyOfLine(wr.fp[1]) = FirstSortedKey
        /\ wr.fp[1] # wr.section_split
        /\ \A i \in 2..Len(wr.fp) :
              (wr.fp[i] # wr.section_split) =>
                  ((wr.fp[i - 1] = wr.section_split) <=>
                      \E j \in 2..Len(LinesWritten) :
                          /\ LinesWritten[j] = wr.fp[i]
                          /\ PrefixesWritten[j] # PrefixesWritten[j - 1])

\* C9: with sectioning, the keys of one prefix are written next to each other:
\* no key of another prefix lies between two keys of the same prefix, so that
\* the number of places where a group starts is the number of distinct prefixes
C9_PrefixGroupsContiguous ==
    (wr.pc = "done" /\ Truthy(wr.section_split)) =>
        /\ \A i, j, k \in DOMAIN PrefixesWritten :
              (i < j /\ j < k /\ PrefixesWritten[i] = PrefixesWritten[k])
                  => PrefixesWritten[j] = PrefixesWritten[i]
        /\ Cardinality({i \in DOMAIN PrefixesWritten :
                           i = 1 \/ PrefixesWritten[i] # PrefixesWritten[i - 1]})
              = Cardinality({PrefixesWritten[i] : i \in DOMAIN PrefixesWritten})

----------------------------------------------------------------------------
(* Properties of Secrets.__repr__ *)

\* sub occurs in text
Occurs(sub, text) ==
    \E i \in 1..(Len(text) - Len(sub) + 1) : SubSeq(text, i, i + Len(sub) - 1) = sub

\* C5: every text printed for one object is the same whatever items the object
\* held when it was printed, and no key or value it held occurs in the text
C5_ReprHidesItems ==
    \A i \in DOMAIN printed :
        /\ printed[i].text = printed[1].text
        /\ \A k \in DOMAIN printed[i].of :
              ~Occurs(k, printed[i].text) /\ ~Occurs(printed[i].of[k], printed[i].text)

C5_Witness ==
    /\ Len(printed) = 2
    /\ printed[1].of # printed[2].of
    /\ printed[1].of # EmptyDict /\ printed[2].of # EmptyDict
    /\ printed[1].text = printed[2].text

====
